---- MODULE Spec2Model ----
(***************************************************************************)
(* Model of pool_switcher.py: the command line (__main__), the fleet       *)
(* (build_miners), the device operations MinerBase.set_pool and            *)
(* MinerBase.reboot with the Antminer and Whatsminer hooks, the on-demand   *)
(* loop and the scheduler (schedule_jobs).                                  *)
(*                                                                         *)
(* The browser (selenium) and the cron scheduler (apscheduler) are the     *)
(* environment: what a page shows, whether a session can be created or     *)
(* destroyed and when a schedule entry fires are chosen with \E.           *)
(* A thread is the main thread (0) or the worker that runs the job of      *)
(* schedule entry j (thread j): the scheduler runs at most one instance of *)
(* a job at a time, and the jobs of different entries on different worker  *)
(* threads.                                                                *)
(***************************************************************************)
EXTENDS Integers, Sequences, FiniteSets, TLC

VARIABLES
    args,      \* argparse namespace: pool, index, miner, reboot
    cfg,       \* the loaded configuration: miners, schedule
    mainpc,    \* position of the main thread in __main__
    exitCode,  \* process exit status, -1 while the process runs
    miners,    \* the list `miners`: handles with their driver attribute
    jobs,      \* pool keys of the jobs added to the scheduler, in order
    th,        \* per thread: position inside the running operation
    ops,       \* history: every set_pool / reboot call, in call order
    sess,      \* history: every browser session created, in creation order:
               \* the call that created it, the quit() calls on it, whether
               \* another call than its creator used or quit it, whether it
               \* was assigned to self.driver, whether a page was loaded in it
    firings,   \* number of job firings so far
    frame      \* the frame of a _set_field call run on its own: its
               \* arguments, the page, the loop position, the elements written

vars == <<args, cfg, mainpc, exitCode, miners, jobs, th, ops, sess, firings, frame>>

----------------------------------------------------------------------------
(* Bounds *)

\* Total number of job firings explored in scheduled mode.
MaxFirings == 2
\* Largest number of rows the Antminer pool table shows.
MaxRows == 2

----------------------------------------------------------------------------
(* Values *)

\* Python's None (an absent --pool, an absent "type" key).
None == "None"
\* self.driver = None
NoDriver == 0

MainThread == 0

\* Python truthiness of an optional string (args.pool).
Truthy(s) == s # None /\ s # ""

\* str.lower() on the type strings the configurations use.
Lower(s) ==
    CASE s = "Antminer" -> "antminer"
      [] s = "Whatsminer" -> "whatsminer"
      [] s = "WHATSMINER" -> "whatsminer"
      [] OTHER -> s

\* The configurations explored (load_config's result): a fleet of both
\* families with one schedule entry, a fleet of one device with two schedule
\* entries (two jobs, which may run at the same time), and a fleet with an
\* entry of an unknown type.
Configs ==
    { [miners |-> << [name |-> "ant01", type |-> None, pools |-> {"solo"}],
                     [name |-> "wm01", type |-> "Whatsminer",
                      pools |-> {"solo", "fpps"}] >>,
       schedule |-> << "solo" >>],
      [miners |-> << [name |-> "ant02", type |-> "antminer",
                      pools |-> {"solo", "fpps"}] >>,
       schedule |-> << "solo", "fpps" >>],
      [miners |-> << [name |-> "wm02", type |-> "whatsminer", pools |-> {"solo"}],
                     [name |-> "av01", type |-> "avalon", pools |-> {"solo"}] >>,
       schedule |-> << "solo" >>] }

PoolArgs == {None, "solo", "fpps"}
IndexArgs == {0, 1, 2}
MinerArgs == { {}, {"wm01"}, {"zzz"} }

\* The command lines explored. Without --pool and --reboot (scheduled mode)
\* args.index is never read: only a non-default --index is explored there.
\* args.miner is a set of names; {} stands for an absent --miner and for one
\* given without names (None and [], both falsy).
ArgSpace ==
    { a \in [pool : PoolArgs, index : IndexArgs, miner : MinerArgs, reboot : BOOLEAN] :
        (a.pool = None /\ ~a.reboot) => a.index = 2 }

Threads == 0 .. 2

\* No _set_field call is run on its own.
NoFrame == [pc |-> "idle", ids |-> << >>, page |-> {}, k |-> 0, writes |-> << >>]

\* A thread that runs nothing.
IdleThread ==
    [pc |-> "idle",
     \* the caller's loop: next index into miners, next statement of the loop
     \* body, the job's pool key (pk of job(pk=pool_key)) and its firing
     m |-> 0, stage |-> "pool", jobkey |-> None, f |-> 0,
     \* the running call: self (index into miners), its entry in ops, its
     \* arguments pool_key and index
     h |-> 0, op |-> 0, kind |-> None, pk |-> None, idx |-> 0,
     \* what the call did so far: the hooks entered, the exception raised,
     \* whether the post-login landmark showed, the fields _apply_pool typed
     \* into and (cleared) the fields it cleared,
     \* the save selector clicked (0: none), whether a success banner showed,
     \* whether the restart was requested and its confirmation clicked
     hooks |-> << >>, err |-> None, authed |-> FALSE, written |-> 0,
     cleared |-> 0,
     saved |-> 0, banner |-> FALSE, requested |-> FALSE, confirmed |-> FALSE,
     \* where the call is inside the hook: the next statement, the control,
     \* alias or selector it is at; and its local references: drv of
     \* _new_driver, the session of the element it found last
     at |-> "", k |-> 0, drv |-> 0, el |-> 0]

----------------------------------------------------------------------------
(* Fleet construction *)

\* m.get("type", "antminer").lower()
KindOf(m) == Lower(IF m.type = None THEN "antminer" ELSE m.type)

\* MinerBase.__init__: the handle of one configuration entry.
Handle(m) ==
    [name |-> m.name, kind |-> KindOf(m), pool_map |-> m.pools, driver |-> NoDriver]

\* build_miners: one handle per entry, or ValueError at the first unknown type.
BuildOk(c) == \A i \in 1 .. Len(c.miners) : KindOf(c.miners[i]) \in {"antminer", "whatsminer"}

build_miners(c) == [i \in 1 .. Len(c.miners) |-> Handle(c.miners[i])]

\* [m for m in miners if m.name in args.miner]
RECURSIVE FilterByName(_, _)
FilterByName(ms, names) ==
    IF ms = << >> THEN << >>
    ELSE IF Head(ms).name \in names
         THEN << Head(ms) >> \o FilterByName(Tail(ms), names)
         ELSE FilterByName(Tail(ms), names)

----------------------------------------------------------------------------
Init ==
    /\ args \in ArgSpace
    /\ cfg \in Configs
    /\ mainpc = "build"
    /\ exitCode = -1
    /\ miners = << >>
    /\ jobs = << >>
    /\ th = [t \in Threads |-> IdleThread]
    /\ ops = << >>
    /\ sess = << >>
    /\ firings = 0
    /\ frame = NoFrame

----------------------------------------------------------------------------
(* __main__ *)

\* Mutant of BuildMiners: an entry of an unknown type is skipped and the
\* handles of the other entries are returned.
BuildMinersSkipUnknown ==
    /\ mainpc = "build"
    /\ miners' = build_miners([cfg EXCEPT !.miners =
                     SelectSeq(cfg.miners,
                               LAMBDA m : KindOf(m) \in {"antminer", "whatsminer"})])
    /\ mainpc' = "filter"
    /\ UNCHANGED <<args, cfg, exitCode, jobs, th, ops, sess, firings, frame>>

\* miners = build_miners(cfg); an uncaught ValueError ends the process (status 1).
BuildMiners ==
    /\ mainpc = "build"
    /\ IF BuildOk(cfg)
       THEN /\ miners' = build_miners(cfg)
            /\ mainpc' = "filter"
            /\ UNCHANGED exitCode
       ELSE /\ mainpc' = "exit"
            /\ exitCode' = 1
            /\ UNCHANGED miners
    /\ UNCHANGED <<args, cfg, jobs, th, ops, sess, firings, frame>>

\* Mutant of FilterMiners: an empty selection is not rejected.
FilterMinersNoExit ==
    /\ mainpc = "filter"
    /\ miners' = IF args.miner # {} THEN FilterByName(miners, args.miner) ELSE miners
    /\ mainpc' = "mode"
    /\ UNCHANGED <<args, cfg, exitCode, jobs, th, ops, sess, firings, frame>>

\* if args.miner: filter; if not miners: sys.exit(1)
FilterMiners ==
    /\ mainpc = "filter"
    /\ IF args.miner # {}
       THEN LET kept == FilterByName(miners, args.miner)
            IN  /\ miners' = kept
                /\ IF kept = << >>
                   THEN mainpc' = "exit" /\ exitCode' = 1
                   ELSE mainpc' = "mode" /\ UNCHANGED exitCode
       ELSE /\ mainpc' = "mode"
            /\ UNCHANGED <<miners, exitCode>>
    /\ UNCHANGED <<args, cfg, jobs, th, ops, sess, firings, frame>>

\* Mutant of SelectMode: only --pool selects the on-demand branch.
SelectModePoolOnly ==
    /\ mainpc = "mode"
    /\ IF Truthy(args.pool)
       THEN /\ mainpc' = "ondemand"
            /\ th' = [th EXCEPT ![MainThread] = [IdleThread EXCEPT !.pc = "loop", !.m = 1]]
       ELSE /\ mainpc' = "schedule"
            /\ UNCHANGED th
    /\ UNCHANGED <<args, cfg, exitCode, miners, jobs, ops, sess, firings, frame>>

\* if args.pool or args.reboot: on-demand branch, else scheduler branch
SelectMode ==
    /\ mainpc = "mode"
    /\ IF Truthy(args.pool) \/ args.reboot
       THEN /\ mainpc' = "ondemand"
            /\ th' = [th EXCEPT ![MainThread] = [IdleThread EXCEPT !.pc = "loop", !.m = 1]]
       ELSE /\ mainpc' = "schedule"
            /\ UNCHANGED th
    /\ UNCHANGED <<args, cfg, exitCode, miners, jobs, ops, sess, firings, frame>>

----------------------------------------------------------------------------
(* Calls *)

\* The thread record and the history entry of a call of set_pool or reboot
\* on miners[h], made by thread t.
CallRec(me, h, kind, key, index) ==
    [me EXCEPT !.pc = IF kind = "PoolSwitch" THEN "set_pool" ELSE "new_driver",
               !.h = h, !.op = Len(ops) + 1, !.kind = kind, !.pk = key, !.idx = index,
               !.hooks = << >>, !.err = None, !.authed = FALSE, !.written = 0,
               !.cleared = 0,
               !.saved = 0, !.banner = FALSE, !.requested = FALSE,
               !.confirmed = FALSE, !.at = "", !.k = 0, !.drv = 0, !.el = 0]

\* Positions inside set_pool or reboot.
InCall == {"set_pool", "new_driver", "set_page_load_timeout", "assign_driver", "login",
           "goto_pool_page", "apply_pool", "save", "do_reboot", "finally", "quit",
           "clear"}

\* The calls in flight on miners[h], by their entries in ops.
InFlightOn(h) == { th[u].op : u \in { v \in Threads : th[v].pc \in InCall /\ th[v].h = h } }

\* History entry of a call: st is what the call logged ("running" until it
\* logs its result), ret how it ended ("no" while it runs, "returned", or the
\* exception that left it), overlap whether another call on the same handle
\* was in flight during it.
OpRec(t, h, kind, key, index) ==
    [dev |-> miners[h].name, kind |-> kind, t |-> t, f |-> th[t].f, key |-> key,
     index |-> index, st |-> "running", ret |-> "no", overlap |-> InFlightOn(h) # {}]

\* ops with the call of thread t on miners[h] appended; the calls it meets
\* on the handle overlap it.
WithCall(t, h, kind, key, index) ==
    Append([o \in 1 .. Len(ops) |->
               IF o \in InFlightOn(h) THEN [ops[o] EXCEPT !.overlap = TRUE] ELSE ops[o]],
           OpRec(t, h, kind, key, index))

\* for m in miners: if args.pool: m.set_pool(args.pool, index=args.index)
IterPool ==
    LET me == th[MainThread] IN
    /\ mainpc = "ondemand"
    /\ me.pc = "loop" /\ me.stage = "pool" /\ me.m <= Len(miners)
    /\ IF Truthy(args.pool)
       THEN /\ th' = [th EXCEPT ![MainThread] =
                        CallRec([me EXCEPT !.stage = "reboot"], me.m, "PoolSwitch",
                                args.pool, args.index)]
            /\ ops' = WithCall(MainThread, me.m, "PoolSwitch", args.pool, args.index)
       ELSE /\ th' = [th EXCEPT ![MainThread].stage = "reboot"]
            /\ UNCHANGED ops
    /\ UNCHANGED <<args, cfg, mainpc, exitCode, miners, jobs, sess, firings, frame>>

\* Mutant of IterReboot: elif instead of if, the reboot is skipped after a
\* pool switch.
IterRebootElif ==
    LET me == th[MainThread] IN
    /\ mainpc = "ondemand"
    /\ me.pc = "loop" /\ me.stage = "reboot" /\ me.m <= Len(miners)
    /\ IF args.reboot /\ ~Truthy(args.pool)
       THEN /\ th' = [th EXCEPT ![MainThread] =
                        CallRec([me EXCEPT !.stage = "pool", !.m = me.m + 1], me.m,
                                "Reboot", None, 0)]
            /\ ops' = WithCall(MainThread, me.m, "Reboot", None, 0)
       ELSE /\ th' = [th EXCEPT ![MainThread].stage = "pool", ![MainThread].m = me.m + 1]
            /\ UNCHANGED ops
    /\ UNCHANGED <<args, cfg, mainpc, exitCode, miners, jobs, sess, firings, frame>>

\* ... if args.reboot: m.reboot(); then the next miner
IterReboot ==
    LET me == th[MainThread] IN
    /\ mainpc = "ondemand"
    /\ me.pc = "loop" /\ me.stage = "reboot" /\ me.m <= Len(miners)
    /\ IF args.reboot
       THEN /\ th' = [th EXCEPT ![MainThread] =
                        CallRec([me EXCEPT !.stage = "pool", !.m = me.m + 1], me.m,
                                "Reboot", None, 0)]
            /\ ops' = WithCall(MainThread, me.m, "Reboot", None, 0)
       ELSE /\ th' = [th EXCEPT ![MainThread].stage = "pool", ![MainThread].m = me.m + 1]
            /\ UNCHANGED ops
    /\ UNCHANGED <<args, cfg, mainpc, exitCode, miners, jobs, sess, firings, frame>>

\* sys.exit(0) after the loop
OnDemandExit ==
    /\ mainpc = "ondemand"
    /\ th[MainThread].pc = "loop" /\ th[MainThread].m > Len(miners)
    /\ mainpc' = "exit"
    /\ exitCode' = 0
    /\ UNCHANGED <<args, cfg, miners, jobs, th, ops, sess, firings, frame>>

----------------------------------------------------------------------------
(* MinerBase.set_pool and MinerBase.reboot *)

Self(t) == miners[th[t].h]

\* Mutant of set_pool: the pool key is not looked up before the session is
\* opened.
set_pool_nocheck(t) ==
    /\ th[t].pc = "set_pool"
    /\ th' = [th EXCEPT ![t].pc = "new_driver"]
    /\ UNCHANGED <<args, cfg, mainpc, exitCode, miners, jobs, ops, sess, firings, frame>>

\* pool = self.pool_map.get(pool_key); if not pool: log the error and return
set_pool(t) ==
    LET me == th[t] IN
    /\ me.pc = "set_pool"
    /\ IF me.pk \in Self(t).pool_map
       THEN /\ th' = [th EXCEPT ![t].pc = "new_driver"]
            /\ UNCHANGED ops
       ELSE /\ th' = [th EXCEPT ![t].pc = "loop", ![t].err = "UnknownPoolKey"]
            /\ ops' = [ops EXCEPT ![me.op].st = "Failed", ![me.op].ret = "returned"]
    /\ UNCHANGED <<args, cfg, mainpc, exitCode, miners, jobs, sess, firings, frame>>

\* drv = webdriver.Chrome(options=opts), the first statement of
\* _new_driver() that blocks: the session exists, nothing refers to it but
\* the local drv; or the browser cannot be started.
new_driver(t) ==
    LET me == th[t] IN
    /\ me.pc = "new_driver"
    /\ \/ /\ sess' = Append(sess, [owner |-> me.op, quits |-> 0, alien |-> FALSE,
                                   held |-> FALSE, loaded |-> FALSE])
          /\ th' = [th EXCEPT ![t].pc = "set_page_load_timeout", ![t].drv = Len(sess) + 1]
          /\ UNCHANGED ops
       \/ /\ th' = [th EXCEPT ![t].pc = "finally", ![t].err = "SessionResourceError"]
          /\ ops' = [ops EXCEPT ![me.op].st = "Failed"]
          /\ UNCHANGED sess
    /\ UNCHANGED <<args, cfg, mainpc, exitCode, miners, jobs, firings, frame>>

\* drv.set_page_load_timeout(30): a command to the new session; when it
\* raises, the session is referred to by nothing and stays open.
set_page_load_timeout(t) ==
    LET me == th[t] IN
    /\ me.pc = "set_page_load_timeout"
    /\ \/ /\ th' = [th EXCEPT ![t].pc = "assign_driver"]
          /\ UNCHANGED ops
       \/ /\ th' = [th EXCEPT ![t].pc = "finally", ![t].err = "SessionResourceError"]
          /\ ops' = [ops EXCEPT ![me.op].st = "Failed"]
    /\ UNCHANGED <<args, cfg, mainpc, exitCode, miners, jobs, sess, firings, frame>>

\* The first statement of each hook.
FirstStmt(kind, hook) ==
    CASE hook = "login" -> "get"
      [] hook = "goto_pool_page" -> IF kind = "antminer" THEN "find" ELSE "get"
      [] hook = "apply_pool" -> IF kind = "antminer" THEN "rows" ELSE "find1"
      [] hook = "save" -> "find"
      [] hook = "do_reboot" -> IF kind = "antminer" THEN "find" ELSE "get"
      [] OTHER -> ""

\* The thread as it calls the hook (self._login(), ...): at its first statement.
Enter(t, hook) ==
    [th[t] EXCEPT !.pc = hook, !.at = FirstStmt(miners[th[t].h].kind, hook),
                  !.k = 1, !.el = 0, !.hooks = Append(@, hook)]

\* return drv; self.driver = <the returned session>
assign_driver(t) ==
    LET me == th[t] IN
    /\ me.pc = "assign_driver"
    /\ miners' = [miners EXCEPT ![me.h].driver = me.drv]
    /\ sess' = [sess EXCEPT ![me.drv].held = TRUE]
    /\ th' = [th EXCEPT ![t] = [Enter(t, "login") EXCEPT !.drv = 0]]
    /\ UNCHANGED <<args, cfg, mainpc, exitCode, jobs, ops, firings, frame>>

\* What a command raises before it reaches any page: it is sent to
\* self.driver, which is None (AttributeError), or to a session that was quit.
DriverFault(d) ==
    IF d = NoDriver THEN "AttributeError"
    ELSE IF sess[d].quits > 0 THEN "SessionGone"
    ELSE None

\* The exception class behind each failure of a hook, as the code raises it:
\* _wait raises TimeoutException, find_element, _set_field and the Antminer
\* row check raise NoSuchElementException, the unpacking of a short row
\* ValueError.
ExceptionOf(err) ==
    CASE err = "AuthenticationFailed" -> "TimeoutException"
      [] err = "NavigationFailed" -> "TimeoutException"
      [] err = "ConfirmTimeout" -> "TimeoutException"
      [] err = "PageLoadTimeout" -> "TimeoutException"
      [] err = "SlotOutOfRange" -> "NoSuchElementException"
      [] err = "FieldNotFound" -> "NoSuchElementException"
      [] err = "ElementNotFound" -> "NoSuchElementException"
      [] err = "ValueError" -> "ValueError"
      [] err = "AttributeError" -> "AttributeError"
      [] err = "SessionGone" -> "WebDriverException"
      [] err = "SessionResourceError" -> "WebDriverException"
      [] OTHER -> None

\* What set_pool or reboot hands its caller when a hook raised err: the except
\* clause logs the exception and the function ends without a return value.
CallerSees(err) == None

\* Mutant of TryStmt: no except clause, the exception leaves the call.
TryStmtNoExcept(t, target, res, rec, load) ==
    LET me == th[t]
        fault == DriverFault(target)
        r == IF fault # None THEN fault ELSE res
    IN
    /\ th' = [th EXCEPT ![t] =
                IF r = "ok" THEN rec
                ELSE [me EXCEPT !.pc = "raised", !.at = "", !.k = 0, !.el = 0, !.err = r]]
    /\ ops' = IF r # "ok" THEN [ops EXCEPT ![me.op].st = "Failed", ![me.op].ret = r]
              ELSE IF rec.pc = "finally" THEN [ops EXCEPT ![me.op].st = "Success"]
              ELSE ops
    /\ sess' = IF target = NoDriver THEN sess
               ELSE [sess EXCEPT ![target].alien = @ \/ sess[target].owner # me.op,
                                 ![target].loaded = @ \/ (load /\ fault = None)]
    /\ UNCHANGED <<args, cfg, mainpc, exitCode, miners, jobs, firings, frame>>

\* One statement of a hook, inside the try block of set_pool or reboot: a
\* browser command sent to the session target (self.driver as this statement
\* reads it, or the session of an element found before), followed by the
\* statements that do not block. res is what the page makes of the command
\* ("ok", or the failure raised), rec the thread after the statement when
\* nothing is raised, load whether the command loads a page (driver.get).
\* An exception is caught by `except Exception` and logged ("... FAILED"), and
\* the call is at its finally clause; a call whose last statement succeeded
\* logs "complete" / "triggered".
TryStmt(t, target, res, rec, load) ==
    LET me == th[t]
        fault == DriverFault(target)
        r == IF fault # None THEN fault ELSE res
    IN
    /\ th' = [th EXCEPT ![t] =
                IF r = "ok" THEN rec
                ELSE [me EXCEPT !.pc = "finally", !.at = "", !.k = 0, !.el = 0, !.err = r]]
    /\ ops' = IF r # "ok" THEN [ops EXCEPT ![me.op].st = "Failed"]
              ELSE IF rec.pc = "finally" THEN [ops EXCEPT ![me.op].st = "Success"]
              ELSE ops
    /\ sess' = IF target = NoDriver THEN sess
               ELSE [sess EXCEPT ![target].alien = @ \/ sess[target].owner # me.op,
                                 ![target].loaded = @ \/ (load /\ fault = None)]
    /\ UNCHANGED <<args, cfg, mainpc, exitCode, miners, jobs, firings, frame>>

\* The session d shows a page: a page was loaded in it (a new session shows
\* none, no element is found in it).
Loaded(d) == d # NoDriver /\ sess[d].loaded

\* The thread once the call is past its last hook (or out of it).
Leave(me) == [me EXCEPT !.pc = "finally", !.at = "", !.k = 0, !.el = 0]

\* self.driver.get(url): the page is loaded in the session self.driver refers
\* to, or the load exceeds the page-load timeout set by _new_driver and get
\* raises TimeoutException.
Get(t, rec) ==
    \E loads \in BOOLEAN :
        TryStmt(t, Self(t).driver, IF loads THEN "ok" ELSE "PageLoadTimeout", rec, TRUE)

\* The thread as _login returns: the next hook of set_pool or of reboot is
\* called.
AfterLogin(t) ==
    IF th[t].kind = "PoolSwitch" THEN Enter(t, "goto_pool_page") ELSE Enter(t, "do_reboot")

\* Antminer._login: self.driver.get(url), then the wait (15 s) for the
\* landmark li.item[data-id='miner'] in self.driver.
AntminerLogin(t) ==
    LET me == th[t]
        d == Self(t).driver
    IN
    \/ /\ me.at = "get"
       /\ Get(t, [me EXCEPT !.at = "wait"])
    \/ /\ me.at = "wait"
       /\ \E landmark \in BOOLEAN :
             /\ landmark => Loaded(d)
             /\ TryStmt(t, d, IF landmark THEN "ok" ELSE "AuthenticationFailed",
                        [AfterLogin(t) EXCEPT !.authed = TRUE], FALSE)

\* The controls of the login form Whatsminer._login looks up, in its order:
\* username, password, the submit button.
LoginControls == << "username", "password", "submit" >>

\* Whatsminer._login: self.driver.get(url), the wait (15 s) for the username
\* field; then each control is looked up in self.driver (find_element, not
\* awaited: NoSuchElementException when it is absent) and typed into or
\* clicked. Nothing is awaited after the click on submit: whether the device
\* accepted the credentials (authed) makes no difference to _login.
WhatsminerLogin(t) ==
    LET me == th[t]
        d == Self(t).driver
    IN
    \/ /\ me.at = "get"
       /\ Get(t, [me EXCEPT !.at = "wait"])
    \/ /\ me.at = "wait"
       /\ \E form \in BOOLEAN :
             /\ form => Loaded(d)
             /\ TryStmt(t, d, IF form THEN "ok" ELSE "AuthenticationFailed",
                        [me EXCEPT !.at = "find", !.k = 1], FALSE)
    \/ /\ me.at = "find"
       /\ \E found \in BOOLEAN :
             /\ found => Loaded(d)
             /\ TryStmt(t, d, IF found THEN "ok" ELSE "ElementNotFound",
                        [me EXCEPT !.at = "act", !.el = d], FALSE)
    \/ /\ me.at = "act"
       /\ IF me.k < Len(LoginControls)
          THEN TryStmt(t, me.el, "ok",
                       [me EXCEPT !.at = "find", !.k = me.k + 1, !.el = 0], FALSE)
          ELSE \E accepted \in BOOLEAN :
                  TryStmt(t, me.el, "ok", [AfterLogin(t) EXCEPT !.authed = accepted], FALSE)

\* self._login()
login(t) ==
    /\ th[t].pc = "login"
    /\ IF Self(t).kind = "antminer" THEN AntminerLogin(t) ELSE WhatsminerLogin(t)

\* The wait (15 s) of _goto_pool_page for the landmark of the pool page
\* (poolForm, or cbid.btminer.1.url) in self.driver.
GotoPoolPage(t) ==
    LET me == th[t]
        d == Self(t).driver
    IN
    /\ me.at = "wait"
    /\ \E surface \in BOOLEAN :
          /\ surface => Loaded(d)
          /\ TryStmt(t, d, IF surface THEN "ok" ELSE "NavigationFailed",
                     Enter(t, "apply_pool"), FALSE)

\* Antminer._goto_pool_page: the menu entry li.item[data-id='miner'] is looked
\* up in self.driver (find_element, not awaited) and clicked; then the wait.
AntminerGotoPoolPage(t) ==
    LET me == th[t]
        d == Self(t).driver
    IN
    \/ /\ me.at = "find"
       /\ \E found \in BOOLEAN :
             /\ found => Loaded(d)
             /\ TryStmt(t, d, IF found THEN "ok" ELSE "ElementNotFound",
                        [me EXCEPT !.at = "click", !.el = d], FALSE)
    \/ /\ me.at = "click"
       /\ TryStmt(t, me.el, "ok", [me EXCEPT !.at = "wait", !.el = 0], FALSE)
    \/ GotoPoolPage(t)

\* Whatsminer._goto_pool_page: self.driver.get(url of the pool page), then
\* the wait.
WhatsminerGotoPoolPage(t) ==
    LET me == th[t]
        d == Self(t).driver
    IN
    \/ /\ me.at = "get"
       /\ Get(t, [me EXCEPT !.at = "wait"])
    \/ GotoPoolPage(t)

\* self._goto_pool_page()
goto_pool_page(t) ==
    /\ th[t].pc = "goto_pool_page"
    /\ IF Self(t).kind = "antminer" THEN AntminerGotoPoolPage(t)
       ELSE WhatsminerGotoPoolPage(t)

\* Antminer._apply_pool: the rows of #poolTable are read from self.driver
\* and the index is checked against them; the inputs of the row are read
\* through the row element and the first three unpacked (ValueError if
\* fewer); each is cleared, then typed into (el.clear(); el.send_keys(val),
\* two commands through the element).
AntminerApply(t) ==
    LET me == th[t]
        d == Self(t).driver
    IN
    \/ /\ me.at = "rows"
       /\ \E rows \in 0 .. MaxRows :
             /\ rows > 0 => Loaded(d)
             /\ TryStmt(t, d,
                        IF me.idx < 1 \/ me.idx > rows THEN "SlotOutOfRange" ELSE "ok",
                        [me EXCEPT !.at = "inputs", !.el = d], FALSE)
    \/ /\ me.at = "inputs"
       /\ \E inputs \in 2 .. 3 :
             TryStmt(t, me.el, IF inputs < 3 THEN "ValueError" ELSE "ok",
                     [me EXCEPT !.at = "clear", !.k = 1], FALSE)
    \/ /\ me.at = "clear"
       /\ TryStmt(t, me.el, "ok", [me EXCEPT !.at = "send_keys", !.cleared = me.k], FALSE)
    \/ /\ me.at = "send_keys"
       /\ TryStmt(t, me.el, "ok",
                  IF me.k < 3
                  THEN [me EXCEPT !.at = "clear", !.written = me.k, !.k = me.k + 1]
                  ELSE [Enter(t, "save") EXCEPT !.written = me.k],
                  FALSE)

\* MinerBase._set_field as a function of the page: the first of ids present
\* on it, None if none.
RECURSIVE set_field(_, _)
set_field(ids, present) ==
    IF ids = << >> THEN None
    ELSE IF Head(ids) \in present THEN Head(ids)
    ELSE set_field(Tail(ids), present)

\* Mutant of NoneOfIds: _set_field returns when no alias is present.
NoneOfIdsIgnored(field) == "ok"

\* raise NoSuchElementException(f"none of IDs {ids} present"), the end of
\* _set_field for the field-th value.
NoneOfIds(field) == "FieldNotFound"

\* Whatsminer._apply_pool: url, user, pass in this order, each through
\* _set_field: f"cbid.btminer.{index}.<field>" is looked up in self.driver,
\* then f"cbid.table.{index}.<field>" if the first is absent; the one found
\* is cleared, then typed into (two commands); with both absent _set_field raises and the
\* fields before stay written.
WhatsminerApply(t) ==
    LET me == th[t]
        d == Self(t).driver
        next == IF me.k < 3 THEN [me EXCEPT !.at = "find1", !.k = me.k + 1, !.el = 0]
                ELSE Enter(t, "save")
    IN
    \/ /\ me.at = "find1"
       /\ \E present \in BOOLEAN :
             /\ present => Loaded(d)
             /\ TryStmt(t, d, "ok",
                        IF present THEN [me EXCEPT !.at = "clear", !.el = d]
                        ELSE [me EXCEPT !.at = "find2"],
                        FALSE)
    \/ /\ me.at = "find2"
       /\ \E present \in BOOLEAN :
             /\ present => Loaded(d)
             /\ TryStmt(t, d, IF present THEN "ok" ELSE NoneOfIds(me.k),
                        IF present THEN [me EXCEPT !.at = "clear", !.el = d] ELSE next,
                        FALSE)
    \/ /\ me.at = "clear"
       /\ TryStmt(t, me.el, "ok", [me EXCEPT !.at = "send_keys", !.cleared = me.k], FALSE)
    \/ /\ me.at = "send_keys"
       /\ TryStmt(t, me.el, "ok", [next EXCEPT !.written = me.written + 1], FALSE)

\* self._apply_pool(pool, index)
apply_pool(t) ==
    /\ th[t].pc = "apply_pool"
    /\ IF Self(t).kind = "antminer" THEN AntminerApply(t) ELSE WhatsminerApply(t)

\* Mutant of SaveWait: a missing success banner after the click is an error.
SaveWaitStrict(clicked, banner) ==
    IF clicked /\ ~banner THEN "ConfirmTimeout" ELSE "ok"

\* try: _wait(self.driver, ..., success banner) except TimeoutException: pass
SaveWait(clicked, banner) == "ok"

\* _save (both variants, which differ in their selectors only): the three
\* save selectors are looked up in self.driver in turn, the first found is
\* clicked and the loop is left; NoSuchElementException moves to the next
\* selector and none found is no error. Then the wait for the success banner.
save(t) ==
    LET me == th[t]
        d == Self(t).driver
    IN
    /\ me.pc = "save"
    /\ \/ /\ me.at = "find"
          /\ \E found \in BOOLEAN :
                /\ found => Loaded(d)
                /\ TryStmt(t, d, "ok",
                           IF found THEN [me EXCEPT !.at = "click", !.el = d]
                           ELSE IF me.k < 3 THEN [me EXCEPT !.k = me.k + 1]
                           ELSE [me EXCEPT !.at = "wait", !.k = 0],
                           FALSE)
       \/ /\ me.at = "click"
          /\ TryStmt(t, me.el, "ok",
                     [me EXCEPT !.at = "wait", !.saved = me.k, !.k = 0, !.el = 0], FALSE)
       \/ /\ me.at = "wait"
          /\ \E banner \in BOOLEAN :
                /\ banner => Loaded(d)
                /\ TryStmt(t, d, SaveWait(me.saved # 0, banner),
                           [Leave(me) EXCEPT !.banner = banner], FALSE)

\* Antminer._do_reboot: #restart is looked up in self.driver and clicked, the
\* wait (10 s) for #restartFun to be clickable, then #restartFun is looked up
\* and clicked. NoSuchElementException of either lookup is caught and logged
\* and _do_reboot returns; the TimeoutException of the wait is not caught
\* here.
AntminerReboot(t) ==
    LET me == th[t]
        d == Self(t).driver
    IN
    \/ /\ me.at = "find"
       /\ \E found \in BOOLEAN :
             /\ found => Loaded(d)
             /\ TryStmt(t, d, "ok",
                        IF found THEN [me EXCEPT !.at = "click", !.el = d] ELSE Leave(me),
                        FALSE)
    \/ /\ me.at = "click"
       /\ TryStmt(t, me.el, "ok",
                  [me EXCEPT !.at = "wait", !.el = 0, !.requested = TRUE], FALSE)
    \/ /\ me.at = "wait"
       /\ \E popup \in BOOLEAN :
             /\ popup => Loaded(d)
             /\ TryStmt(t, d, IF popup THEN "ok" ELSE "ConfirmTimeout",
                        [me EXCEPT !.at = "find2"], FALSE)
    \/ /\ me.at = "find2"
       /\ \E found \in BOOLEAN :
             /\ found => Loaded(d)
             /\ TryStmt(t, d, "ok",
                        IF found THEN [me EXCEPT !.at = "click2", !.el = d] ELSE Leave(me),
                        FALSE)
    \/ /\ me.at = "click2"
       /\ TryStmt(t, me.el, "ok", [Leave(me) EXCEPT !.confirmed = TRUE], FALSE)

\* Whatsminer._do_reboot: self.driver.get(restart URL), the wait (10 s) for a
\* submit control to be clickable, which is then looked up and clicked. The
\* TimeoutException of the wait is ignored; NoSuchElementException of the
\* lookup is not caught here.
WhatsminerReboot(t) ==
    LET me == th[t]
        d == Self(t).driver
    IN
    \/ /\ me.at = "get"
       /\ Get(t, [me EXCEPT !.at = "wait", !.requested = TRUE])
    \/ /\ me.at = "wait"
       /\ \E popup \in BOOLEAN :
             /\ popup => Loaded(d)
             /\ TryStmt(t, d, "ok",
                        IF popup THEN [me EXCEPT !.at = "find2"] ELSE Leave(me), FALSE)
    \/ /\ me.at = "find2"
       /\ \E found \in BOOLEAN :
             /\ found => Loaded(d)
             /\ TryStmt(t, d, IF found THEN "ok" ELSE "ElementNotFound",
                        [me EXCEPT !.at = "click2", !.el = d], FALSE)
    \/ /\ me.at = "click2"
       /\ TryStmt(t, me.el, "ok", [Leave(me) EXCEPT !.confirmed = TRUE], FALSE)

\* self._do_reboot()
do_reboot(t) ==
    /\ th[t].pc = "do_reboot"
    /\ IF Self(t).kind = "antminer" THEN AntminerReboot(t) ELSE WhatsminerReboot(t)

\* What the thread keeps of the call once its finally clause runs: the hook
\* details are no longer read, the result is in ops.
Settled(me) ==
    [me EXCEPT !.hooks = << >>, !.err = None, !.authed = FALSE, !.written = 0,
               !.cleared = 0,
               !.saved = 0, !.banner = FALSE, !.requested = FALSE,
               !.confirmed = FALSE, !.at = "", !.k = 0, !.drv = 0, !.el = 0]

\* finally: if self.driver:
finally_check(t) ==
    LET me == th[t] IN
    /\ me.pc = "finally"
    /\ IF Self(t).driver # NoDriver
       THEN /\ th' = [th EXCEPT ![t] = [Settled(me) EXCEPT !.pc = "quit"]]
            /\ UNCHANGED ops
       ELSE /\ th' = [th EXCEPT ![t] = [Settled(me) EXCEPT !.pc = "loop"]]
            /\ ops' = [ops EXCEPT ![me.op].ret = "returned"]
    /\ UNCHANGED <<args, cfg, mainpc, exitCode, miners, jobs, sess, firings, frame>>

\* self.driver.quit(): self.driver is read again; an exception of quit (or
\* the AttributeError on None) leaves the finally clause and the call.
\* Nothing is logged here: what the call logged in its try block or except
\* clause (st) stays.
quit(t) ==
    LET me == th[t]
        d == Self(t).driver
    IN
    /\ me.pc = "quit"
    /\ IF d = NoDriver
       THEN /\ th' = [th EXCEPT ![t].pc = "raised"]
            /\ ops' = [ops EXCEPT ![me.op].ret = "AttributeError"]
            /\ UNCHANGED sess
       ELSE /\ sess' = [sess EXCEPT ![d].quits = @ + 1,
                                     ![d].alien = @ \/ sess[d].owner # me.op]
            /\ \/ th' = [th EXCEPT ![t].pc = "clear"] /\ UNCHANGED ops
               \/ /\ th' = [th EXCEPT ![t].pc = "raised"]
                  /\ ops' = [ops EXCEPT ![me.op].ret = "SessionResourceError"]
    /\ UNCHANGED <<args, cfg, mainpc, exitCode, miners, jobs, firings, frame>>

\* self.driver = None, and the call returns
clear(t) ==
    LET me == th[t] IN
    /\ me.pc = "clear"
    /\ miners' = [miners EXCEPT ![me.h].driver = NoDriver]
    /\ th' = [th EXCEPT ![t].pc = "loop"]
    /\ ops' = [ops EXCEPT ![me.op].ret = "returned"]
    /\ UNCHANGED <<args, cfg, mainpc, exitCode, jobs, sess, firings, frame>>

\* An exception that left set_pool or reboot: in the main thread it ends the
\* process (traceback, status 1); in a job the scheduler's executor logs it
\* and the job instance is over.
Propagate(t) ==
    /\ th[t].pc = "raised"
    /\ IF t = MainThread
       THEN /\ mainpc' = "exit"
            /\ exitCode' = 1
            /\ th' = [th EXCEPT ![t].pc = "dead"]
       ELSE /\ th' = [th EXCEPT ![t] = IdleThread]
            /\ UNCHANGED <<mainpc, exitCode>>
    /\ UNCHANGED <<args, cfg, miners, jobs, ops, sess, firings, frame>>

----------------------------------------------------------------------------
(* Scheduler *)

\* schedule_jobs: one job per schedule entry, job(pk=pool_key) over the list
\* miners it was given; then sched.start() blocks.
schedule_jobs ==
    /\ mainpc = "schedule"
    /\ jobs' = [j \in 1 .. Len(cfg.schedule) |-> cfg.schedule[j]]
    /\ mainpc' = "scheduler"
    /\ UNCHANGED <<args, cfg, exitCode, miners, th, ops, sess, firings, frame>>

\* The trigger of entry j fires and no instance of its job is running: a
\* worker thread starts job(pk).
Fire(j) ==
    /\ mainpc = "scheduler"
    /\ j \in 1 .. Len(jobs)
    /\ th[j].pc = "idle"
    /\ firings < MaxFirings
    /\ firings' = firings + 1
    /\ th' = [th EXCEPT ![j] = [IdleThread EXCEPT !.pc = "loop", !.m = 1,
                                                  !.jobkey = jobs[j],
                                                  !.f = firings + 1]]
    /\ UNCHANGED <<args, cfg, mainpc, exitCode, miners, jobs, ops, sess, frame>>

\* job: for m in miners: m.set_pool(pk)
JobIter(t) ==
    LET me == th[t] IN
    /\ t # MainThread
    /\ me.pc = "loop"
    /\ IF me.m <= Len(miners)
       THEN /\ th' = [th EXCEPT ![t] = CallRec([me EXCEPT !.m = me.m + 1], me.m,
                                               "PoolSwitch", me.jobkey, 1)]
            /\ ops' = WithCall(t, me.m, "PoolSwitch", me.jobkey, 1)
       ELSE /\ th' = [th EXCEPT ![t] = IdleThread]
            /\ UNCHANGED ops
    /\ UNCHANGED <<args, cfg, mainpc, exitCode, miners, jobs, sess, firings, frame>>

----------------------------------------------------------------------------
Next ==
    \/ BuildMiners
    \/ FilterMiners
    \/ SelectMode
    \/ IterPool
    \/ IterReboot
    \/ OnDemandExit
    \/ schedule_jobs
    \/ \E j \in Threads : Fire(j)
    \/ \E t \in Threads :
          \/ JobIter(t)
          \/ set_pool(t)
          \/ new_driver(t)
          \/ set_page_load_timeout(t)
          \/ assign_driver(t)
          \/ login(t)
          \/ goto_pool_page(t)
          \/ apply_pool(t)
          \/ save(t)
          \/ do_reboot(t)
          \/ finally_check(t)
          \/ quit(t)
          \/ clear(t)
          \/ Propagate(t)

Spec == Init /\ [][Next]_vars

----------------------------------------------------------------------------
(* MinerBase._set_field on its own: one call on a handle whose session     *)
(* shows a page, run statement by statement.                               *)

\* Longest alias list explored.
MaxAliases == 3

\* Element identifiers: the two aliases Whatsminer._apply_pool gives for the
\* url of slot 1, and one more.
FieldIds == { <<p, 1, "url">> : p \in {"cbid.btminer", "cbid.table", "cbid.pools"} }

\* The argument lists *ids: every list of at most MaxAliases identifiers.
RECURSIVE AliasLists(_)
AliasLists(n) ==
    IF n = 0 THEN { << >> }
    ELSE AliasLists(n - 1) \cup
         { Append(l, x) : l \in { q \in AliasLists(n - 1) : Len(q) = n - 1 }, x \in FieldIds }

\* The call starts; no fleet, thread or session of the program is involved.
SetFieldInit ==
    /\ args = [pool |-> None, index |-> 1, miner |-> {}, reboot |-> FALSE]
    /\ cfg = [miners |-> << >>, schedule |-> << >>]
    /\ mainpc = "set_field"
    /\ exitCode = -1
    /\ miners = << >>
    /\ jobs = << >>
    /\ th = [t \in Threads |-> IdleThread]
    /\ ops = << >>
    /\ sess = << >>
    /\ firings = 0
    /\ \E ids \in AliasLists(MaxAliases), page \in SUBSET FieldIds :
          frame = [pc |-> "loop", ids |-> ids, page |-> page, k |-> 1, writes |-> << >>]

\* Mutant of SetFieldIter: no return after the write, every alias present is
\* written.
SetFieldIterNoReturn ==
    /\ frame.pc = "loop" /\ frame.k <= Len(frame.ids)
    /\ frame' = IF frame.ids[frame.k] \in frame.page
                THEN [frame EXCEPT !.writes = Append(@, frame.ids[frame.k]), !.k = @ + 1]
                ELSE [frame EXCEPT !.k = @ + 1]
    /\ UNCHANGED <<args, cfg, mainpc, exitCode, miners, jobs, th, ops, sess, firings>>

\* for fid in ids: try: el = find_element(By.ID, fid); el.clear();
\* el.send_keys(val); return / except NoSuchElementException: continue
SetFieldIter ==
    /\ frame.pc = "loop" /\ frame.k <= Len(frame.ids)
    /\ frame' = IF frame.ids[frame.k] \in frame.page
                THEN [frame EXCEPT !.writes = Append(@, frame.ids[frame.k]),
                                   !.pc = "returned"]
                ELSE [frame EXCEPT !.k = @ + 1]
    /\ UNCHANGED <<args, cfg, mainpc, exitCode, miners, jobs, th, ops, sess, firings>>

\* raise NoSuchElementException(f"none of IDs {ids} present")
SetFieldRaise ==
    /\ frame.pc = "loop" /\ frame.k > Len(frame.ids)
    /\ frame' = [frame EXCEPT !.pc = "raised"]
    /\ UNCHANGED <<args, cfg, mainpc, exitCode, miners, jobs, th, ops, sess, firings>>

SetFieldNext == SetFieldIter \/ SetFieldRaise

SetFieldSpec == SetFieldInit /\ [][SetFieldNext]_vars

----------------------------------------------------------------------------
(* Vocabulary of the properties *)

OpIds == 1 .. Len(ops)
SessIds == 1 .. Len(sess)

\* The sessions that call o created and assigned to self.driver.
SessionsOf(o) == { s \in SessIds : sess[s].owner = o /\ sess[s].held }

\* Call o is the latest call on its device.
LastOnDevice(o) == \A o2 \in OpIds : o2 > o => ops[o2].dev # ops[o].dev

\* The driver attribute of the handle named dev.
DriverOf(dev) ==
    LET i == CHOOSE k \in 1 .. Len(miners) : miners[k].name = dev
    IN  miners[i].driver

----------------------------------------------------------------------------
(* C1 *)

\* C1: every call of set_pool or reboot that has ended, with every hook
\* succeeding or any hook failing, has closed each session it opened exactly
\* once, and leaves self.driver = None.
C1_SessionClosedOnce ==
    \A o \in OpIds :
        ops[o].ret # "no" =>
            /\ \A s \in SessIds : sess[s].owner = o => sess[s].quits = 1
            /\ LastOnDevice(o) => DriverOf(ops[o].dev) = NoDriver

----------------------------------------------------------------------------
(* C2 *)

\* C2: the step of set_pool on a pool key that is not in the handle's
\* pool_map ends the call as Failed(UnknownPoolKey): it returns to the caller
\* with no hook entered, creates no session (and the call owns none), and
\* leaves every handle, self.driver included, as it was.
C2_UnknownKeyNoSession ==
    [][\A t \in Threads :
          (/\ th[t].pc = "set_pool"
           /\ th[t].pk \notin Self(t).pool_map
           /\ th'[t] # th[t]) =>
              /\ sess' = sess
              /\ miners' = miners
              /\ \A s \in SessIds : sess[s].owner # th[t].op
              /\ th'[t].pc = "loop"
              /\ th'[t].hooks = << >>
              /\ th'[t].err = "UnknownPoolKey"
              /\ ops'[th[t].op].st = "Failed"
              /\ ops'[th[t].op].ret = "returned"]_vars

\* set_pool has returned on an unknown pool key.
C2_Witness ==
    \E t \in Threads :
        /\ th[t].pc = "loop" /\ th[t].err = "UnknownPoolKey"
        /\ ops[th[t].op].ret = "returned" /\ ops[th[t].op].st = "Failed"
        /\ ops[th[t].op].key \notin Self(t).pool_map

----------------------------------------------------------------------------
(* C3 *)

\* The on-demand run was asked for a pool switch and a reboot.
BothRequested == Truthy(args.pool) /\ args.reboot

\* Device i of the selected fleet has received set_pool and, after it, reboot.
ReceivedBoth(i) ==
    \E o1, o2 \in OpIds :
        /\ o1 < o2
        /\ ops[o1].dev = miners[i].name /\ ops[o1].kind = "PoolSwitch"
        /\ ops[o2].dev = miners[i].name /\ ops[o2].kind = "Reboot"

\* C3: in an on-demand dispatch with pool key and reboot requested, a
\* set_pool that fails with a caught error (unknown pool key, or an exception
\* of _login, _goto_pool_page, _apply_pool, _save) stops nothing: unless a
\* session teardown error left a call, the loop cannot stop before the exit,
\* the process ends with sys.exit(0) only, and then every device, the failing
\* one included, has received set_pool and reboot.
C3_DispatcherIndependence ==
    (BothRequested /\ ops # << >>
        /\ \A o \in OpIds : ops[o].ret # "SessionResourceError") =>
            /\ \A o \in OpIds : ops[o].ret \in {"no", "returned"}
            /\ mainpc \in {"ondemand", "exit"}
            /\ mainpc = "exit" =>
                  /\ exitCode = 0
                  /\ \A i \in 1 .. Len(miners) : ReceivedBoth(i)
            /\ (mainpc = "ondemand" /\ th[MainThread].pc = "loop") =>
                  ENABLED (IterPool \/ IterReboot \/ OnDemandExit)

\* The dispatch over two devices is over, the pool switch of the first device
\* failed, and both devices received both operations.
C3_Witness ==
    /\ BothRequested /\ mainpc = "exit" /\ Len(miners) = 2
    /\ ops[1].kind = "PoolSwitch" /\ ops[1].st = "Failed" /\ ops[1].ret = "returned"
    /\ \A i \in 1 .. Len(miners) : ReceivedBoth(i)
    /\ \A o \in OpIds : o > 1 => ops[o].st = "Success"

----------------------------------------------------------------------------
(* C4 *)

\* C4: every error raised during set_pool or reboot, a session that cannot be
\* created or destroyed included, is caught inside the call: the call returns
\* normally and the caller's loop goes on.
C4_AllErrorsCaught ==
    \A o \in OpIds : ops[o].ret \in {"no", "returned"}

----------------------------------------------------------------------------
(* C5 *)

\* C5: a reboot that requested the restart and saw no confirmation control
\* within the wait is logged as triggered (Success), for both families; a
\* control that appeared was clicked.
C5_NoConfirmationIsSuccess ==
    \A t \in Threads :
        (th[t].kind = "Reboot" /\ th[t].pc = "finally" /\ th[t].requested
            /\ ~th[t].confirmed) => ops[th[t].op].st = "Success"

----------------------------------------------------------------------------
(* C6 *)

\* C6: the on-demand run exits with status 0 only if every call of the
\* dispatch succeeded, with a non-zero status if any failed, and in both
\* cases after every selected device was processed.
C6_ExitStatusReflectsFailures ==
    (mainpc = "exit" /\ ops # << >> /\ \A o \in OpIds : ops[o].ret = "returned") =>
        /\ exitCode = 0 <=> \A o \in OpIds : ops[o].st = "Success"
        /\ \A i \in 1 .. Len(miners) : \E o \in OpIds : ops[o].dev = miners[i].name

----------------------------------------------------------------------------
(* C7 *)

\* --miner names were given and none of them is a device of the fleet.
FilterMisses ==
    /\ args.miner # {}
    /\ \A i \in 1 .. Len(cfg.miners) : cfg.miners[i].name \notin args.miner

\* C7: when the --miner names match no device of the fleet, the run ends with
\* exit status 1 at the filter: no session was created, no set_pool or reboot
\* was called and no job was added to the scheduler.
C7_EmptySelectionIsInputError ==
    FilterMisses =>
        /\ sess = << >> /\ ops = << >> /\ jobs = << >> /\ firings = 0
        /\ mainpc \in {"build", "filter", "exit"}
        /\ mainpc = "exit" => exitCode = 1

\* The fleet was built and the filter ended the run.
C7_Witness ==
    /\ FilterMisses /\ BuildOk(cfg)
    /\ mainpc = "exit" /\ exitCode = 1 /\ miners = << >>

----------------------------------------------------------------------------
(* C8 *)

----------------------------------------------------------------------------
(* C9 *)

\* Positions at which the call uses or quits self.driver.
UsesDriver == {"login", "goto_pool_page", "apply_pool", "save", "do_reboot", "quit"}

\* C9: when calls on one handle overlap, each acts on and closes only the
\* session it opened itself, and every session opened is closed exactly once.
C9_NoSharedSession ==
    /\ \A t \in Threads :
          (th[t].pc \in UsesDriver /\ ops[th[t].op].overlap) =>
              /\ Self(t).driver # NoDriver
              /\ sess[Self(t).driver].owner = th[t].op
    /\ \A s \in SessIds :
          ops[sess[s].owner].overlap =>
              /\ ~sess[s].alien
              /\ sess[s].quits <= 1
              /\ (sess[s].held /\ ops[sess[s].owner].ret = "returned") => sess[s].quits = 1

----------------------------------------------------------------------------
(* C10 *)

\* The calls of firing f, and whether the job instance of firing f is over.
FiringOps(f) == { o \in OpIds : ops[o].f = f }
FiringOver(f) == \A t \in Threads : th[t].f # f

\* Every call of a firing is set_pool with the key of the firing's own
\* schedule entry and index 1.
FiringCallsOwnKey ==
    \A o \in OpIds :
        ops[o].f > 0 =>
            /\ ops[o].kind = "PoolSwitch"
            /\ ops[o].index = 1
            /\ ops[o].t \in 1 .. Len(cfg.schedule)
            /\ ops[o].key = cfg.schedule[ops[o].t]

\* C10: every firing calls set_pool with the key of its own schedule entry
\* and index 1, never reboot, and a firing that is over has called it once on
\* every device of the configured fleet, whatever --miner filter was given.
C10_FullFleet ==
    /\ FiringCallsOwnKey
    /\ \A f \in 1 .. firings :
          FiringOver(f) =>
              \A i \in 1 .. Len(cfg.miners) :
                  Cardinality({ o \in FiringOps(f) : ops[o].dev = cfg.miners[i].name }) = 1

----------------------------------------------------------------------------
(* C11 *)

\* The running call of thread t has called the hook named name.
HookRan(t, name) == \E i \in 1 .. Len(th[t].hooks) : th[t].hooks[i] = name

\* Thread t is inside the try block or at the finally clause of a call that
\* has its handle to itself: the details of the call are in th[t].
Observed(t) ==
    /\ th[t].pc \in {"login", "goto_pool_page", "apply_pool", "save", "do_reboot", "finally"}
    /\ ~ops[th[t].op].overlap

\* The failures _login raises: the awaited element did not show, or a control
\* of the login form is missing.
LoginFailures == {"AuthenticationFailed", "ElementNotFound", "PageLoadTimeout"}

\* C11: in set_pool and in reboot, on both families, a login after which the
\* post-login landmark did not show fails the call as an authentication
\* failure: login is the only hook called, the call is logged as FAILED and is
\* at its finally clause.
C11_NoLandmarkNoLaterHook ==
    \A t \in Threads :
        (Observed(t) /\ HookRan(t, "login") /\ th[t].pc # "login" /\ ~th[t].authed) =>
            /\ th[t].err \in LoginFailures
            /\ th[t].hooks = << "login" >>
            /\ th[t].pc = "finally"
            /\ ops[th[t].op].st = "Failed"

----------------------------------------------------------------------------
(* C12 *)

\* The pool switch of thread t has left _apply_pool by an exception.
ApplyFailed(t) ==
    /\ th[t].kind = "PoolSwitch" /\ th[t].pc = "finally" /\ th[t].err # None
    /\ th[t].hooks = << "login", "goto_pool_page", "apply_pool" >>

\* The first three parts of C12 alone, which the code meets: on an Antminer
\* an index outside the rows of the page fails _apply_pool with
\* SlotOutOfRange, and SlotOutOfRange is raised there only, before any field
\* is written; on a Whatsminer _apply_pool fails with FieldNotFound only (an
\* index the page has no fields for).
C12_RangeFailures ==
    \A t \in Threads :
        (Observed(t) /\ th[t].kind = "PoolSwitch" /\ HookRan(t, "apply_pool")) =>
            /\ (Self(t).kind = "antminer" /\ th[t].idx \notin 1 .. MaxRows
                   /\ th[t].pc # "apply_pool") =>
                  th[t].err = "SlotOutOfRange"
            /\ th[t].err = "SlotOutOfRange" =>
                  Self(t).kind = "antminer" /\ th[t].written = 0
            /\ (Self(t).kind = "whatsminer" /\ ApplyFailed(t)) =>
                  th[t].err = "FieldNotFound"

\* C12: the slot index is 1-based. On an Antminer an index outside the rows
\* of the page fails _apply_pool with SlotOutOfRange before any field is
\* written; on a Whatsminer an index the page has no fields for fails it with
\* FieldNotFound; and a SlotOutOfRange failure can be told from a
\* FieldNotFound failure, by what the caller of set_pool receives or by the
\* failure code raised.
C12_SlotIndexFailures ==
    /\ C12_RangeFailures
    /\ \A t \in Threads :
          (Observed(t) /\ th[t].err = "SlotOutOfRange") =>
              \/ CallerSees(th[t].err) # CallerSees("FieldNotFound")
              \/ ExceptionOf(th[t].err) # ExceptionOf("FieldNotFound")

----------------------------------------------------------------------------
(* C13 *)

\* The hooks of a pool switch, in the order set_pool calls them.
PoolHooks == << "login", "goto_pool_page", "apply_pool", "save" >>

\* C13: a pool switch whose _save clicked a save control and saw no success
\* banner within the wait is no failure: no exception is raised, all four
\* hooks have run and the call is logged as complete (Success), on both
\* families.
C13_NoBannerIsSuccess ==
    \A t \in Threads :
        (Observed(t) /\ th[t].kind = "PoolSwitch" /\ th[t].pc = "finally"
            /\ HookRan(t, "save") /\ th[t].saved # 0 /\ ~th[t].banner) =>
                /\ th[t].err = None
                /\ th[t].hooks = PoolHooks
                /\ ops[th[t].op].st = "Success"

\* A Whatsminer pool switch wrote its three fields, clicked a save control,
\* saw no banner and is logged as complete.
C13_Witness ==
    \E t \in Threads :
        /\ Observed(t) /\ th[t].kind = "PoolSwitch" /\ th[t].pc = "finally"
        /\ Self(t).kind = "whatsminer" /\ th[t].written = 3
        /\ th[t].saved # 0 /\ ~th[t].banner
        /\ ops[th[t].op].st = "Success"

----------------------------------------------------------------------------
(* C14 *)

\* The variant a configuration entry names: its type without regard to case,
\* Antminer when the entry has no type.
VariantNamed(type) ==
    IF type \in {None, "antminer", "Antminer"} THEN "antminer"
    ELSE IF type \in {"whatsminer", "Whatsminer", "WHATSMINER"} THEN "whatsminer"
    ELSE "unknown"

HasUnknownKind ==
    \E i \in 1 .. Len(cfg.miners) : VariantNamed(cfg.miners[i].type) = "unknown"

\* C14: build_miners returns one handle per configuration entry, in
\* configuration order and of the variant the entry names; or, when an entry
\* names an unknown kind, no fleet at all: the run ends with status 1 at
\* build_miners, no handle exists (also none for the entries before the bad
\* one), no session was created, no call made and no job scheduled.
C14_BuildAllOrNothing ==
    /\ HasUnknownKind =>
          /\ miners = << >> /\ sess = << >> /\ ops = << >> /\ jobs = << >>
          /\ firings = 0
          /\ mainpc \in {"build", "exit"}
          /\ mainpc = "exit" => exitCode = 1
    /\ (~HasUnknownKind /\ mainpc = "filter") =>
          /\ Len(miners) = Len(cfg.miners)
          /\ \A i \in 1 .. Len(cfg.miners) :
                /\ miners[i].name = cfg.miners[i].name
                /\ miners[i].kind = VariantNamed(cfg.miners[i].type)
                /\ miners[i].pool_map = cfg.miners[i].pools
                /\ miners[i].driver = NoDriver

\* The second entry of the configuration names an unknown kind, the first a
\* known one: the run ended at build_miners with no fleet.
C14_Witness ==
    /\ Len(cfg.miners) = 2
    /\ VariantNamed(cfg.miners[1].type) = "whatsminer"
    /\ VariantNamed(cfg.miners[2].type) = "unknown"
    /\ mainpc = "exit" /\ exitCode = 1 /\ miners = << >>

----------------------------------------------------------------------------
(* C15 *)

\* The command line asks for a pool switch (a non-empty --pool) or a reboot.
Requested == Truthy(args.pool) \/ args.reboot

\* The calls of one kind made on the device named dev.
CallsOn(dev, kind) == { o \in OpIds : ops[o].dev = dev /\ ops[o].kind = kind }

\* C15: with a pool key or a reboot requested the run is one on-demand
\* dispatch by the main thread and adds no job to the scheduler, and a
\* dispatch that ends with sys.exit(0) has made each requested call once per
\* selected device; with neither requested the run never enters the
\* on-demand loop and never ends as a dispatch that did nothing: it adds the
\* job of every schedule entry, and its calls are those of job firings.
C15_ModeSelection ==
    /\ Requested =>
          /\ mainpc \notin {"schedule", "scheduler"}
          /\ jobs = << >> /\ firings = 0
          /\ \A o \in OpIds : ops[o].f = 0 /\ ops[o].t = MainThread
          /\ (mainpc = "exit" /\ exitCode = 0) =>
                \A i \in 1 .. Len(miners) :
                    /\ Cardinality(CallsOn(miners[i].name, "PoolSwitch")) =
                          IF Truthy(args.pool) THEN 1 ELSE 0
                    /\ Cardinality(CallsOn(miners[i].name, "Reboot")) =
                          IF args.reboot THEN 1 ELSE 0
    /\ ~Requested =>
          /\ mainpc # "ondemand"
          /\ exitCode # 0
          /\ mainpc = "exit" => ops = << >>
          /\ mainpc = "scheduler" => jobs = cfg.schedule
          /\ \A o \in OpIds : ops[o].f > 0 /\ ops[o].t # MainThread

\* Neither was requested: both schedule entries are jobs of the scheduler and
\* a firing has called set_pool.
C15_Witness ==
    /\ ~Requested /\ mainpc = "scheduler"
    /\ Len(jobs) = 2 /\ jobs = cfg.schedule
    /\ ops # << >>

----------------------------------------------------------------------------
(* C16 *)

\* C16: in scheduled mode a firing in which a pool switch was logged as
\* FAILED stops nothing: the process is still running the scheduler, the
\* firing, once over, has called set_pool on every selected device, and the
\* job of every schedule entry that is not running can fire again.
C16_FailedFiringKeepsSchedule ==
    \A f \in 1 .. firings :
        (\E o \in FiringOps(f) : ops[o].st = "Failed") =>
            /\ mainpc = "scheduler" /\ exitCode = -1
            /\ FiringOver(f) =>
                  \A i \in 1 .. Len(miners) :
                      \E o \in FiringOps(f) : ops[o].dev = miners[i].name
            /\ \A j \in 1 .. Len(jobs) :
                  (th[j].pc = "idle" /\ firings < MaxFirings) => ENABLED Fire(j)

----------------------------------------------------------------------------
(* C17 *)

\* Positions of a call between the creation of its session and its finally
\* clause.
InTry == {"login", "goto_pool_page", "apply_pool", "save", "do_reboot", "finally"}

\* The hooks entered by the pool switch of thread t are the first hooks of
\* PoolHooks, in order.
HooksInOrder(t) ==
    /\ Len(th[t].hooks) <= Len(PoolHooks)
    /\ \A i \in 1 .. Len(th[t].hooks) : th[t].hooks[i] = PoolHooks[i]

\* What holds of a pool switch inside its try block.
C17_State ==
    \A t \in Threads :
        (th[t].kind = "PoolSwitch" /\ th[t].pc \in InTry) =>
            /\ HooksInOrder(t)
            \* the session is opened before the first hook
            /\ th[t].hooks # << >> => SessionsOf(th[t].op) # {}
            \* a hook is called only after every hook before it succeeded
            /\ th[t].pc # "finally" =>
                  /\ th[t].err = None
                  /\ th[t].hooks # << >>
                  /\ th[t].pc = PoolHooks[Len(th[t].hooks)]
            \* _save is not entered after a failed or partial _apply_pool
            /\ HookRan(t, "save") => th[t].written = 3
            \* after a failure nothing but the finally clause is left
            /\ th[t].err # None =>
                  /\ th[t].pc = "finally"
                  /\ ops[th[t].op].st = "Failed"
            /\ (th[t].pc = "finally" /\ th[t].err = None) =>
                  /\ th[t].hooks = PoolHooks
                  /\ ops[th[t].op].st = "Success"

\* From its finally clause on, a pool switch only closes the session and
\* returns: it enters no hook.
C17_Step ==
    \A t \in Threads :
        (th[t].kind = "PoolSwitch" /\ th[t].pc \in {"finally", "quit", "clear"}
            /\ th'[t] # th[t]) =>
                /\ th'[t].pc \in {"quit", "clear", "raised", "loop"}
                /\ th'[t].hooks = << >>
                /\ Len(sess') = Len(sess)

\* C17: set_pool opens the session, then runs login, goto_pool_page,
\* apply_pool and save in this order on both families, each only after every
\* hook before it succeeded: save is never entered after a failed or partial
\* apply_pool, and after the first failure the call only closes its session.
C17_HookOrder == []C17_State /\ [][C17_Step]_vars

\* A Whatsminer pool switch wrote some but not all fields: apply_pool failed
\* and save was not entered.
C17_Witness ==
    \E t \in Threads :
        /\ th[t].kind = "PoolSwitch" /\ th[t].pc = "finally"
        /\ Self(t).kind = "whatsminer"
        /\ th[t].written \in 1 .. 2 /\ th[t].err = "FieldNotFound"
        /\ th[t].hooks = << "login", "goto_pool_page", "apply_pool" >>

----------------------------------------------------------------------------
(* C18 *)

\* Position in ids of the earliest alias present on the page, 0 if none is.
EarliestPresent(ids, page) ==
    IF \A i \in 1 .. Len(ids) : ids[i] \notin page THEN 0
    ELSE CHOOSE i \in 1 .. Len(ids) :
            /\ ids[i] \in page
            /\ \A j \in 1 .. i - 1 : ids[j] \notin page

\* C18: for every alias list and every set of identifiers present on the
\* page, _set_field writes nothing before it ends; it returns having written
\* exactly one element, the earliest alias of the list that is present; and
\* it raises FieldNotFound, having written nothing, exactly when no alias of
\* the list is present. The result is the one the operator set_field gives.
C18_EarliestAliasOnly ==
    LET e == EarliestPresent(frame.ids, frame.page) IN
    /\ frame.pc = "loop" => frame.writes = << >>
    /\ frame.pc = "returned" =>
          /\ e # 0
          /\ frame.writes = << frame.ids[e] >>
          /\ set_field(frame.ids, frame.page) = frame.ids[e]
    /\ frame.pc = "raised" =>
          /\ e = 0
          /\ frame.writes = << >>
          /\ set_field(frame.ids, frame.page) = None
    /\ (e = 0 /\ frame.pc # "loop") => frame.pc = "raised"

\* The primary identifier is absent and a fallback present, after another
\* that is present too: the value was written to the first fallback only.
C18_Witness ==
    /\ frame.pc = "returned" /\ Len(frame.ids) = 3
    /\ frame.ids[1] \notin frame.page
    /\ frame.ids[2] \in frame.page /\ frame.ids[3] \in frame.page
    /\ frame.ids[2] # frame.ids[3]
    /\ frame.writes = << frame.ids[2] >>

----------------------------------------------------------------------------
(* C19 *)

\* C19: a pool switch is logged as complete (Success) only if _save clicked
\* a save control of the page; a call whose _save found none of the save
\* selectors is not logged as complete.
C19_CompleteOnlyIfSaved ==
    \A t \in Threads :
        (Observed(t) /\ th[t].kind = "PoolSwitch" /\ th[t].pc = "finally") =>
            /\ ops[th[t].op].st = "Success" => th[t].saved # 0
            /\ (HookRan(t, "save") /\ th[t].saved = 0) => ops[th[t].op].st = "Failed"

----------------------------------------------------------------------------
(* C20 *)

\* C20: a reboot is logged as triggered (Success) only if the restart was
\* requested on the device; an Antminer reboot that did not find the restart
\* control is logged as FAILED.
C20_TriggeredOnlyIfRequested ==
    \A t \in Threads :
        (Observed(t) /\ th[t].kind = "Reboot" /\ th[t].pc = "finally") =>
            /\ ops[th[t].op].st = "Success" => th[t].requested
            /\ (HookRan(t, "do_reboot") /\ ~th[t].requested) =>
                  ops[th[t].op].st = "Failed"
====
